---- MODULE Spec2Model ----
(***************************************************************************)
(* ArmorCode release gate action: the poll loop of run(), the request it   *)
(* posts, the formatter of the failure report and the reporter that writes *)
(* the run summary and the pull-request comment.                           *)
(***************************************************************************)
EXTENDS Integers, Sequences, FiniteSets, Bags, TLC

VARIABLES
    mode,            \* inputs.mode, a sequence of one-character strings
    maxRetries,      \* inputs.maxRetries
    inputsPresent,   \* every `required: true` input has a value
    pc,              \* position of run(): start, loop, awaitCall, awaitSleep, done
    attempt,         \* the loop variable of the poll loop
    events,          \* observable effects of run(), in order
    outcomes,        \* what each remote call produced, in order
    fmtIn,           \* the arguments of one formatDetailedErrorMessage call
    fmtOut,          \* what that call produced: nothing yet, a report or a throw
    retriesNaN,      \* parseInt of the maxRetries input gave NaN
    additionalAQLFilters, \* inputs.additionalAQLFilters, a sequence of characters
    context,         \* github.context.payload.pull_request
    requests,        \* the request bodies posted so far, in order
    report,          \* the text the last console.log(detailedError) printed
    reporter         \* createSummary: operations in flight, texts, and the bag
                     \* of its log entries

vars == <<mode, maxRetries, inputsPresent, pc, attempt, events, outcomes,
          fmtIn, fmtOut, retriesNaN, additionalAQLFilters, context, requests,
          report, reporter>>

\* the inputs that no step of run() changes
inputVars == <<retriesNaN, additionalAQLFilters, context>>

\* what the FAILED branch prints and hands to the reporter
sinkVars == <<report, reporter>>

\* the formatter call is not part of the poll-loop model
fmtVars == <<fmtIn, fmtOut>>

----------------------------------------------------------------------------
\* Bounds

MaxAttempts == 3

----------------------------------------------------------------------------
\* Strings as sequences of characters, String.prototype.toLowerCase

UpperChars == <<"A","B","C","D","E","F","G","H","I","J","K","L","M",
                "N","O","P","Q","R","S","T","U","V","W","X","Y","Z">>
LowerChars == <<"a","b","c","d","e","f","g","h","i","j","k","l","m",
                "n","o","p","q","r","s","t","u","v","w","x","y","z">>

ToLowerChar(c) ==
    IF \E i \in DOMAIN UpperChars : UpperChars[i] = c
    THEN LowerChars[CHOOSE i \in DOMAIN UpperChars : UpperChars[i] = c]
    ELSE c

ToLowerCase(s) == [i \in DOMAIN s |-> ToLowerChar(s[i])]

BlockStr == <<"b","l","o","c","k">>
WarnStr  == <<"w","a","r","n">>

\* the values of the `mode` input the model draws from
Modes ==
    { <<"b","l","o","c","k">>, <<"B","L","O","C","K">>, <<"B","l","o","c","k">>,
      <<"w","a","r","n">>,     <<"W","A","R","N">>,     <<"W","a","r","n">>,
      <<"a","u","d","i","t">>, <<"b","l","o","c","k","s">> }

----------------------------------------------------------------------------
\* The remote verdict (ArmorCodeResponse) and the outcomes of a remote call

\* an optional JSON value: absent, null, a string or a number; a string is
\* either atomic (StrVal) or a text, a sequence of string pieces (TxtVal)
Absent    == [type |-> "absent", val |-> ""]
Null      == [type |-> "null", val |-> ""]
StrVal(s) == [type |-> "string", val |-> s]
NumVal(n) == [type |-> "number", val |-> n]
TxtVal(t) == [type |-> "text", val |-> t]

\* JavaScript truthiness of an optional JSON value
Truthy(v) ==
    \/ v.type = "string" /\ v.val # ""
    \/ v.type = "number" /\ v.val # 0
    \/ v.type = "text" /\ Len(v.val) > 0

StatusValues ==
    { Absent, StrVal(""), StrVal("HOLD"), StrVal("FAILED"), StrVal("PASS"),
      StrVal("RELEASE"), StrVal("UNKNOWN"), StrVal("hold"), StrVal("Failed") }

LinkValues == { Absent, TxtVal(<<"https://ac/f", "?", "x=1">>), NumVal(7) }

Verdicts ==
    [kind : {"verdict"}, status : StatusValues, detailsLink : LinkValues,
     link : {Absent}]

\* a rejected remote call: the thrown value is an Error instance or not
Throws == [kind : {"throw"}, isError : BOOLEAN]

Outcomes == Verdicts \cup Throws

DefaultDetailsLink == TxtVal(<<"https://app.armorcode.com/client/integrations/">>)

\* responseJson.detailsLink || responseJson.link || "<default>"
BaseDetailsLink(r) ==
    IF Truthy(r.detailsLink) THEN r.detailsLink
    ELSE IF Truthy(r.link) THEN r.link
    ELSE DefaultDetailsLink

\* baseDetailsLink.includes("?") is a TypeError unless baseDetailsLink is a string
FormatterThrows(r) == BaseDetailsLink(r).type \notin {"string", "text"}

\* a fail-closed default: response.status || 'FAILED'
StatusOfFailClosed(r) == IF Truthy(r.status) THEN r.status.val ELSE "FAILED"

\* response.status || 'UNKNOWN'
StatusOf(r) == IF Truthy(r.status) THEN r.status.val ELSE "UNKNOWN"

----------------------------------------------------------------------------
\* Texts.  A text is a sequence of string pieces: a literal of the source is
\* one piece, a number is rendered digit by digit, and the separators the
\* code tests for (", ", "?", the JSON punctuation) are pieces of their own.

DigitChars == <<"0","1","2","3","4","5","6","7","8","9">>

\* Number.prototype.toString, as used by template literals
RECURSIVE Decimal(_)
Decimal(n) ==
    IF n < 0 THEN <<"-">> \o Decimal(0 - n)
    ELSE IF n < 10 THEN <<DigitChars[n + 1]>>
    ELSE Decimal(n \div 10) \o <<DigitChars[(n % 10) + 1]>>

\* String.prototype.includes for a one-piece needle
Includes(t, piece) == \E i \in DOMAIN t : t[i] = piece

\* String.prototype.endsWith for a one-piece suffix
EndsWith(t, piece) == Len(t) > 0 /\ t[Len(t)] = piece

\* `${v}` for a JSON value
TemplateOf(v) ==
    IF v.type = "text" THEN v.val
    ELSE IF v.type = "number" THEN Decimal(v.val)
    ELSE IF v.type = "null" THEN <<"null">>
    ELSE IF v.type = "absent" THEN <<"undefined">>
    ELSE <<v.val>>

----------------------------------------------------------------------------
\* formatDetailedErrorMessage: the counters

SeverityLabels == <<" Critical", " High", " Medium", " Low">>
RiskLabels     == <<" Very Poor", " Poor", " Fair", " Good">>

\* lines 43-50, 108-123, 67-74, 153-168: count && count > 0 on a flattened key
FlatPositive(v) == v.type = "number" /\ v.val > 0

\* lines 35-38, 85-100, 59-62, 130-145: the same test on a nested counter
NestedPositive(v) == v.type = "number" /\ v.val > 0

\* lines 85-100, 130-145: the four appends of a nested family; every level
\* but the last appends ", " after its label
RenderNested(c, labels) ==
    LET part(i) == IF NestedPositive(c[i])
                   THEN Decimal(c[i].val) \o <<labels[i]>>
                        \o (IF i < 4 THEN <<", ">> ELSE <<>>)
                   ELSE <<>>
    IN  part(1) \o part(2) \o part(3) \o part(4)

\* lines 103-123, 148-168: the four appends of a flattened family
RenderFlat(c, labels) ==
    LET part(i) == IF FlatPositive(c[i])
                   THEN Decimal(c[i].val) \o <<labels[i]>>
                        \o (IF i < 4 THEN <<", ">> ELSE <<>>)
                   ELSE <<>>
    IN  part(1) \o part(2) \o part(3) \o part(4)

\* lines 32-53
IsSeverityBased(r) ==
    IF r.severity.present
    THEN \E i \in 1..4 : NestedPositive(r.severity.c[i])
    ELSE \E i \in 1..4 : FlatPositive(r.sevFlat[i])

\* lines 56-77
IsRiskBased(r) ==
    IF r.otherProperties.present
    THEN \E i \in 1..4 : NestedPositive(r.otherProperties.c[i])
    ELSE \E i \in 1..4 : FlatPositive(r.riskFlat[i])

\* lines 80-170: findingsScope before the trim
RawFindingsScope(r) ==
    IF IsSeverityBased(r)
    THEN IF r.severity.present
         THEN RenderNested(r.severity.c, SeverityLabels)
         ELSE RenderFlat(r.sevFlat, SeverityLabels)
    ELSE IF IsRiskBased(r)
         THEN IF r.otherProperties.present
              THEN RenderNested(r.otherProperties.c, RiskLabels)
              ELSE RenderFlat(r.riskFlat, RiskLabels)
         ELSE <<>>

\* hasFindings: set by every append
HasFindings(r) == Len(RawFindingsScope(r)) > 0

\* lines 172-175
TrimTrailing(t) == IF EndsWith(t, ", ") THEN SubSeq(t, 1, Len(t) - 1) ELSE t

\* lines 177-181: the text after "Findings Scope: "
FindingsText(r) ==
    IF HasFindings(r) THEN TrimTrailing(RawFindingsScope(r))
    ELSE <<"No findings detected">>

----------------------------------------------------------------------------
\* formatDetailedErrorMessage: reason, details link, message

DefaultReason == <<"SLA check failed">>

IsEmptyText(v) == v.type = "text" /\ Len(v.val) = 0

\* the reason without the null test
ReasonOfNoNullTest(r) ==
    IF r.failureReasonText.type # "absent" /\ ~IsEmptyText(r.failureReasonText)
    THEN TemplateOf(r.failureReasonText)
    ELSE DefaultReason

\* lines 184-191: !== undefined && !== null && !== ""
ReasonOf(r) ==
    IF /\ r.failureReasonText.type # "absent"
       /\ r.failureReasonText.type # "null"
       /\ ~IsEmptyText(r.failureReasonText)
    THEN TemplateOf(r.failureReasonText)
    ELSE DefaultReason

\* lines 195-196: responseJson.otherProperties?.productId
ProductIdOf(r) ==
    IF r.otherProperties.present THEN r.otherProperties.productId ELSE Absent
SubProductIdOf(r) ==
    IF r.otherProperties.present THEN r.otherProperties.subProductId ELSE Absent

\* JSON.stringify of a string of letters, digits, spaces and dashes
JsonString(chars) == <<"\"">> \o chars \o <<"\"">>

\* JSON.stringify of an array element: undefined and null both give null
JsonElement(v) ==
    IF v.type = "number" THEN Decimal(v.val)
    ELSE IF v.type = "text" THEN JsonString(v.val)
    ELSE <<"null">>

JsonKey(k) == <<"\"", k, "\"", ":">>

\* lines 207-212: JSON.stringify({buildNumber: [..], jobName: [..],
\* product: [productId], subproduct: [subProductId]})
FiltersJson(buildNumber, jobName, productId, subProductId) ==
    <<"{">>
    \o JsonKey("buildNumber") \o <<"[">> \o JsonString(buildNumber) \o <<"]", ",">>
    \o JsonKey("jobName") \o <<"[">> \o JsonString(jobName) \o <<"]", ",">>
    \o JsonKey("product") \o <<"[">> \o JsonElement(productId) \o <<"]", ",">>
    \o JsonKey("subproduct") \o <<"[">> \o JsonElement(subProductId) \o <<"]">>
    \o <<"}">>

\* encodeURIComponent: the reserved pieces and their escapes; any other
\* piece of the JSON text consists of unreserved characters
ReservedPieces == <<"{", "}", "\"", ":", "[", "]", ",", " ">>
EscapedPieces  == <<"%7B", "%7D", "%22", "%3A", "%5B", "%5D", "%2C", "%20">>

EncodePiece(x) ==
    IF \E i \in DOMAIN ReservedPieces : ReservedPieces[i] = x
    THEN EscapedPieces[CHOOSE i \in DOMAIN ReservedPieces : ReservedPieces[i] = x]
    ELSE x

EncodeURIComponent(t) == [i \in DOMAIN t |-> EncodePiece(t[i])]

\* a junction that is always "?"
JunctionAlwaysQuery(base) == "?"

\* line 205: baseDetailsLink.includes("?") ? "&" : "?"
Junction(base) == IF Includes(base, "?") THEN "&" ELSE "?"

\* lines 204-213
DetailsLinkOf(r) ==
    LET base == BaseDetailsLink(r).val
    IN  base \o <<Junction(base), "filters=">>
        \o EncodeURIComponent(FiltersJson(r.buildNumber, r.jobName,
                                          ProductIdOf(r), SubProductIdOf(r)))

\* a message with the reason line ahead of the findings line
ComposeReasonFirst(product, subProduct, env, findings, reason, detailsLink) ==
    <<"ArmorCode Release Gate Failed", "\n">>
    \o <<"Product: ", product, "\n">>
    \o <<"Sub Product: ", subProduct, "\n">>
    \o <<"Environment: ", env, "\n">>
    \o <<"Reason: ">> \o reason \o <<"\n">>
    \o <<"Findings Scope: ">> \o findings \o <<"\n">>
    \o <<"View the findings that caused this failure: ">> \o detailsLink

\* lines 19-23, 177-181, 192, 215: the message, line by line
Compose(product, subProduct, env, findings, reason, detailsLink) ==
    <<"ArmorCode Release Gate Failed", "\n">>
    \o <<"Product: ", product, "\n">>
    \o <<"Sub Product: ", subProduct, "\n">>
    \o <<"Environment: ", env, "\n">>
    \o <<"Findings Scope: ">> \o findings \o <<"\n">>
    \o <<"Reason: ">> \o reason \o <<"\n">>
    \o <<"View the findings that caused this failure: ">> \o detailsLink

\* lines 9-221: the returned message, or the TypeError of line 205
FormatDetailedErrorMessage(r) ==
    IF FormatterThrows(r)
    THEN [state |-> "threw", message |-> <<>>]
    ELSE [state |-> "returned",
          message |-> Compose(r.product, r.subProduct, r.env, FindingsText(r),
                              ReasonOf(r), DetailsLinkOf(r))]


----------------------------------------------------------------------------
\* The verdict as the formatter reads it

NoCounters == <<Absent, Absent, Absent, Absent>>

NoSeverity == [present |-> FALSE, c |-> NoCounters]
NoOther    == [present |-> FALSE, c |-> NoCounters,
               productId |-> Absent, subProductId |-> Absent]

Nested(c)  == [present |-> TRUE, c |-> c]
Other(c, pid, spid) ==
    [present |-> TRUE, c |-> c, productId |-> pid, subProductId |-> spid]

\* a FAILED verdict with no counters, no reason and no links, for build 128
\* of job "build"; productIdFlat and subProductIdFlat are the flattened keys
\* "otherProperties.productId" and "otherProperties.subProductId", which the
\* formatter never reads
PlainInput ==
    [ severity |-> NoSeverity, sevFlat |-> NoCounters,
      otherProperties |-> NoOther, riskFlat |-> NoCounters,
      productIdFlat |-> Absent, subProductIdFlat |-> Absent,
      failureReasonText |-> Absent, detailsLink |-> Absent, link |-> Absent,
      product |-> "Demo Group", subProduct |-> "Demo Sub Group",
      env |-> "Production",
      buildNumber |-> Decimal(128), jobName |-> <<"b","u","i","l","d">> ]

----------------------------------------------------------------------------
\* Observable effects

Ev(t, m) == [type |-> t, msg |-> m, ms |-> 0]

\* the fixed delay between attempts, in milliseconds
SleepMs == 20000

CallEv     == Ev("call", "")
SleepEv    == [type |-> "sleep", msg |-> "", ms |-> SleepMs]
ReportEv   == Ev("report", "")
PassEv     == Ev("log", "ArmorCode Release Gate Passed")
WarnEv     == Ev("warning", "ArmorCode Release Gate Failed (warning only)")
GateFailEv == Ev("setFailed", "ArmorCode Release Gate Failed")
ExhaustEv  == Ev("setFailed", "ArmorCode request error after maximum retries.")
RequestLogEv == Ev("log", "ArmorCode request failed")
ActionFailLogEv == Ev("log", "Action failed with error")
ActionFailEv == Ev("setFailed", "Action failed with error")

----------------------------------------------------------------------------
\* postArmorCodeRequest: the request body

WhiteSpace == {" ", "\t", "\n"}

RECURSIVE TrimStart(_)
TrimStart(s) ==
    IF s # <<>> /\ Head(s) \in WhiteSpace THEN TrimStart(Tail(s)) ELSE s

RECURSIVE TrimEnd(_)
TrimEnd(s) ==
    IF s # <<>> /\ s[Len(s)] \in WhiteSpace
    THEN TrimEnd(SubSeq(s, 1, Len(s) - 1))
    ELSE s

\* String.prototype.trim
Trim(s) == TrimEnd(TrimStart(s))

\* the filter added whenever the input is a non-empty string, as typed
AqlFilterUntrimmed(filter) ==
    IF filter # <<>> THEN TxtVal(filter) ELSE Absent

\* api.ts lines 36-39: payload.additionalAQLFilters, when it is set
AqlFilterOf(filter) ==
    IF filter # <<>> /\ Trim(filter) # <<>> THEN TxtVal(Trim(filter)) ELSE Absent

\* a body that numbers the attempts from 0
PayloadZeroBased(current, end, filter) ==
    [ env |-> PlainInput.env, product |-> PlainInput.product,
      subProduct |-> PlainInput.subProduct, buildTool |-> "GITHUB_ACTIONS",
      buildNumber |-> PlainInput.buildNumber, jobName |-> PlainInput.jobName,
      current |-> Decimal(current - 1), end |-> Decimal(end),
      additionalAQLFilters |-> AqlFilterOf(filter) ]

\* api.ts lines 24-39: the payload of the POST
Payload(current, end, filter) ==
    [ env |-> PlainInput.env, product |-> PlainInput.product,
      subProduct |-> PlainInput.subProduct, buildTool |-> "GITHUB_ACTIONS",
      buildNumber |-> PlainInput.buildNumber, jobName |-> PlainInput.jobName,
      current |-> Decimal(current), end |-> Decimal(end),
      additionalAQLFilters |-> AqlFilterOf(filter) ]

\* the values of the additionalAQLFilters input the model draws from
FilterInputs ==
    { <<>>, <<" ", " ">>, <<"a", "=", "1">>, <<" ", "a", "=", "1", "\n">> }

----------------------------------------------------------------------------
\* createSummary and postCommentToPullRequest

\* context.payload.pull_request: absent, with its number, or without one
Contexts ==
    { [pullRequest |-> FALSE, number |-> Absent],
      [pullRequest |-> TRUE, number |-> NumVal(42)],
      [pullRequest |-> TRUE, number |-> Absent] }

\* severity.Critical || 0
CountOrZero(v) == IF Truthy(v) THEN v.val ELSE 0

\* summary.ts lines 38-41: one row of the table; the cell marks stand for
\* the emoji of the source
SummaryRow(label, v, mark) ==
    <<"  <tr>\n    <td>", label, "</td>\n    <td align=\"center\"><b>">>
    \o TemplateOf(NumVal(CountOrZero(v)))
    \o <<"</b></td>\n    <td>",
         IF CountOrZero(v) > 0 THEN mark ELSE "check",
         "</td>\n  </tr>\n">>

\* summary.ts lines 14-53: summaryMsg; responseJson.severity || {} reads the
\* nested counters only, and the verdict carries no slaStatus
SummaryMsg(status, r, detailsLink) ==
    LET c == IF r.severity.present THEN r.severity.c ELSE NoCounters
        link == IF Len(detailsLink) > 0 THEN detailsLink
                ELSE IF Truthy(r.detailsLink) THEN TemplateOf(r.detailsLink)
                ELSE IF Truthy(r.link) THEN TemplateOf(r.link)
                ELSE <<>>
    IN  <<"<h1 align=\"center\">", IF status = "PASS" THEN "pass" ELSE "fail",
          " ArmorCode Release Gate</h1>\n\n">>
        \o <<"<h2 align=\"center\"><code style=\"color:",
             IF status = "PASS" THEN "green" ELSE "red", "\">", status,
             "</code></h2>\n\n">>
        \o <<"<h3 align=\"center\">Security Issues</h3>\n\n",
             "<table align=\"center\">\n",
             "  <tr>\n    <th>Severity</th>\n    <th>Count</th>\n    <th>Status</th>\n  </tr>\n">>
        \o SummaryRow("Critical", c[1], "alert")
        \o SummaryRow("High", c[2], "warning")
        \o SummaryRow("Medium", c[3], "warning")
        \o SummaryRow("Low", c[4], "info")
        \o <<"</table>\n\n">>
        \o <<"<p align=\"center\"><b>SLA Status:</b> <code>", "fail", " ">>
        \o TemplateOf(Absent) \o <<"</code></p>\n\n">>
        \o (IF Len(link) > 0
            THEN <<"<p align=\"center\"><a href=\"">> \o link
                 \o <<"\" target=\"_blank\">View in ArmorCode</a></p>\n\n">>
            ELSE <<>>)

NoticeEv(status)  == Ev("notice", status)
ErrorEv(status)   == Ev("error", status)
SkipCommentEv     == Ev("debug", "Not a pull request event, skipping PR comment")
CreateCommentEv   == Ev("createComment", "")
NoNumberEv        == Ev("warning", "Failed to get PR number")
PostedEv          == Ev("info", "Posted ArmorCode release gate results to PR")
PostFailedEv      == Ev("warning", "Failed to post comment to pull request")
UnhandledRejectionEv == Ev("unhandledRejection", "summary.write")

NoReporter ==
    [ pendingWrites |-> 0, pendingComments |-> 0,
      summaryText |-> <<>>, commentBody |-> <<>>, log |-> EmptyBag ]

\* a comment post that does not look at the triggering event
PostCommentToAnyEvent(rep, message) ==
    [rep EXCEPT !.pendingComments = @ + 1,
                !.commentBody = message,
                !.log = @ (+) SetToBag({CreateCommentEv})]

\* summary.ts lines 74-108, up to the await of createComment
PostCommentToPullRequest(rep, message) ==
    IF ~context.pullRequest
    THEN [rep EXCEPT !.log = @ (+) SetToBag({SkipCommentEv})]
    ELSE IF context.number.type = "number"
         THEN [rep EXCEPT !.pendingComments = @ + 1,
                          !.commentBody = message,
                          !.log = @ (+) SetToBag({CreateCommentEv})]
         ELSE [rep EXCEPT !.log = @ (+) SetToBag({NoNumberEv, PostedEv})]

\* summary.ts lines 9-68, up to its await: the summary write is started and
\* not awaited, the annotation is made, the comment post is started
CreateSummary(status, r, detailsLink) ==
    LET msg == SummaryMsg(status, r, detailsLink)
        started == [reporter EXCEPT
                       !.pendingWrites = @ + 1,
                       !.summaryText = msg,
                       !.log = @ (+) SetToBag({IF status = "PASS" THEN NoticeEv(status)
                                         ELSE ErrorEv(status)})]
    IN  reporter' = PostCommentToPullRequest(started, msg)

----------------------------------------------------------------------------
\* run()

Init ==
    /\ mode \in Modes
    /\ maxRetries \in 1..MaxAttempts
    /\ inputsPresent \in BOOLEAN
    /\ pc = "start"
    /\ attempt = 0
    /\ events = <<>>
    /\ outcomes = <<>>
    /\ fmtIn = <<>>
    /\ fmtOut = [state |-> "none", message |-> <<>>]
    /\ retriesNaN = FALSE
    /\ additionalAQLFilters = <<" ", "a", "=", "1", "\n">>
    /\ context = [pullRequest |-> TRUE, number |-> NumVal(42)]
    /\ requests = <<>>
    /\ report = <<>>
    /\ reporter = NoReporter

\* lines 12-35: read the inputs; core.getInput throws on a missing required
\* input, which the outer catch turns into setFailed
GetInputs ==
    /\ pc = "start"
    /\ IF inputsPresent
       THEN /\ pc' = "loop"
            /\ attempt' = 1
            /\ events' = events
       ELSE /\ pc' = "done"
            /\ attempt' = attempt
            /\ events' = events \o <<ActionFailLogEv, ActionFailEv>>
    /\ UNCHANGED <<mode, maxRetries, inputsPresent, outcomes, fmtVars,
                   inputVars, requests, sinkVars>>

\* line 35: the loop condition, with the off-by-one variants that make one
\* attempt too many and stop one attempt early
LoopContinuesOneMore(a, m) == a <= m + 1

LoopContinuesStrict(a, m) == a < m

LoopContinues(a, m) == a <= m

\* line 35 true, lines 38-50: start the remote call of this attempt; a
\* comparison with NaN is false
StartCall ==
    /\ pc = "loop"
    /\ ~retriesNaN
    /\ LoopContinues(attempt, maxRetries)
    /\ pc' = "awaitCall"
    /\ events' = Append(events, CallEv)
    /\ requests' = Append(requests, Payload(attempt, maxRetries, additionalAQLFilters))
    /\ UNCHANGED <<mode, maxRetries, inputsPresent, attempt, outcomes, fmtVars,
                   inputVars, sinkVars>>

\* line 35 false: the loop is over and run() returns
LoopExit ==
    /\ pc = "loop"
    /\ retriesNaN \/ ~LoopContinues(attempt, maxRetries)
    /\ pc' = "done"
    /\ UNCHANGED <<mode, maxRetries, inputsPresent, attempt, events, outcomes, fmtVars,
                   inputVars, requests, sinkVars>>

\* an inner catch that waits before it looks at the attempt number, and so
\* also after the final attempt
InnerCatchWaitsFirst(isError, ev) ==
    IF isError
    THEN /\ events' = Append(ev, SleepEv)
         /\ pc' = "awaitSleep"
         /\ attempt' = attempt
    ELSE /\ events' = ev
         /\ pc' = "loop"
         /\ attempt' = attempt + 1

\* lines 87-98: the inner catch, entered with the events ev made so far
InnerCatch(isError, ev) ==
    IF isError
    THEN IF attempt = maxRetries
         THEN /\ events' = ev \o <<RequestLogEv, ExhaustEv>>
              /\ pc' = "done"
              /\ attempt' = attempt
         ELSE /\ events' = Append(ev, SleepEv)
              /\ pc' = "awaitSleep"
              /\ attempt' = attempt
    ELSE /\ events' = ev
         /\ pc' = "loop"
         /\ attempt' = attempt + 1

\* block mode that fails the run without printing the report
OnBlockNoReport ==
    /\ events' = Append(events, GateFailEv)
    /\ pc' = "done"
    /\ attempt' = attempt

\* lines 72-77: block mode, after the report is printed
OnBlock ==
    /\ events' = events \o <<ReportEv, GateFailEv>>
    /\ pc' = "done"
    /\ attempt' = attempt

\* the warn branch without its break: the loop goes on to the next attempt
OnWarnNoBreak ==
    /\ events' = events \o <<ReportEv, WarnEv>>
    /\ pc' = "loop"
    /\ attempt' = attempt + 1

\* lines 72, 78-80: warn mode, after the report is printed; break leaves the
\* loop and run() returns
OnWarn ==
    /\ events' = events \o <<ReportEv, WarnEv>>
    /\ pc' = "done"
    /\ attempt' = attempt

\* lines 72, 81: neither branch taken, the loop goes on with attempt + 1
OnOtherMode ==
    /\ events' = Append(events, ReportEv)
    /\ pc' = "loop"
    /\ attempt' = attempt + 1

\* lines 57-81: the FAILED branch
OnFailed(r) ==
    IF FormatterThrows(r)
    THEN InnerCatch(TRUE, events)
    ELSE IF ToLowerCase(mode) = BlockStr
         THEN OnBlock
         ELSE IF ToLowerCase(mode) = WarnStr
              THEN OnWarn
              ELSE OnOtherMode

\* the HOLD branch without its delay
OnHoldNoSleep ==
    /\ events' = events
    /\ pc' = "loop"
    /\ attempt' = attempt + 1

\* lines 54-56: HOLD, wait 20 seconds
OnHold ==
    /\ events' = Append(events, SleepEv)
    /\ pc' = "awaitSleep"
    /\ attempt' = attempt

\* lines 82-85: any other status passes
OnPass ==
    /\ events' = Append(events, PassEv)
    /\ pc' = "done"
    /\ attempt' = attempt

\* the verdict of a remote call as the arguments of the formatter
VerdictInput(r) ==
    [PlainInput EXCEPT !.detailsLink = r.detailsLink, !.link = r.link]

\* lines 59-72 and formatter.ts line 218: the formatter starts createSummary
\* before it returns the report that run() prints; when it throws, neither
\* happens
Render(r) ==
    IF FormatterThrows(r)
    THEN UNCHANGED sinkVars
    ELSE /\ report' = FormatDetailedErrorMessage(VerdictInput(r)).message
         /\ CreateSummary(StatusOf(r), VerdictInput(r), DetailsLinkOf(VerdictInput(r)))

\* lines 52-86: the remote call returned a verdict
CallReturns ==
    /\ pc = "awaitCall"
    /\ \E r \in Verdicts :
        /\ outcomes' = Append(outcomes, r)
        /\ IF StatusOf(r) = "HOLD"
           THEN OnHold /\ UNCHANGED sinkVars
           ELSE IF StatusOf(r) = "FAILED"
                THEN OnFailed(r) /\ Render(r)
                ELSE OnPass /\ UNCHANGED sinkVars
    /\ UNCHANGED <<mode, maxRetries, inputsPresent, fmtVars, inputVars, requests>>

\* lines 38-50 reject: the remote call threw
CallThrows ==
    /\ pc = "awaitCall"
    /\ \E t \in Throws :
        /\ outcomes' = Append(outcomes, t)
        /\ InnerCatch(t.isError, events)
    /\ UNCHANGED <<mode, maxRetries, inputsPresent, fmtVars, inputVars, requests,
                   sinkVars>>

\* lines 56 and 96: the 20 second delay is over, the loop increments attempt
SleepElapses ==
    /\ pc = "awaitSleep"
    /\ pc' = "loop"
    /\ attempt' = attempt + 1
    /\ UNCHANGED <<mode, maxRetries, inputsPresent, events, outcomes, fmtVars,
                   inputVars, requests, sinkVars>>

runVars == <<mode, maxRetries, inputsPresent, pc, attempt, events, outcomes>>

\* summary.ts lines 56-58: the write of the run summary resolved; run() is
\* suspended or over whenever a promise settles
SummaryWritten ==
    /\ reporter.pendingWrites > 0
    /\ reporter' = [reporter EXCEPT !.pendingWrites = @ - 1]
    /\ UNCHANGED <<runVars, fmtVars, inputVars, requests, report>>

\* summary.ts lines 56-58: the write rejected; its promise has no handler
SummaryWriteFails ==
    /\ reporter.pendingWrites > 0
    /\ reporter' = [reporter EXCEPT !.pendingWrites = @ - 1,
                                    !.log = @ (+) SetToBag({UnhandledRejectionEv})]
    /\ UNCHANGED <<runVars, fmtVars, inputVars, requests, report>>

\* summary.ts lines 94-104: createComment resolved
CommentPosted ==
    /\ reporter.pendingComments > 0
    /\ reporter' = [reporter EXCEPT !.pendingComments = @ - 1,
                                    !.log = @ (+) SetToBag({PostedEv})]
    /\ UNCHANGED <<runVars, fmtVars, inputVars, requests, report>>

\* summary.ts lines 94-107: createComment rejected, the catch logs a warning
CommentFails ==
    /\ reporter.pendingComments > 0
    /\ reporter' = [reporter EXCEPT !.pendingComments = @ - 1,
                                    !.log = @ (+) SetToBag({PostFailedEv})]
    /\ UNCHANGED <<runVars, fmtVars, inputVars, requests, report>>

Next ==
    \/ GetInputs
    \/ StartCall
    \/ LoopExit
    \/ CallReturns
    \/ CallThrows
    \/ SleepElapses
    \/ SummaryWritten
    \/ SummaryWriteFails
    \/ CommentPosted
    \/ CommentFails

Spec == Init /\ [][Next]_vars

\* the remote service keeps to the declared ArmorCodeResponse type (links are
\* strings) and a rejected call rejects with an Error instance, as axios does
WellFormed(o) ==
    IF o.kind = "verdict"
    THEN o.detailsLink.type # "number" /\ o.link.type # "number"
    ELSE o.isError

WellFormedStep == \A i \in DOMAIN outcomes' : WellFormed(outcomes'[i])

NextWellFormed ==
    \/ GetInputs /\ WellFormedStep
    \/ StartCall /\ WellFormedStep
    \/ LoopExit /\ WellFormedStep
    \/ CallReturns /\ WellFormedStep
    \/ CallThrows /\ WellFormedStep
    \/ SleepElapses /\ WellFormedStep
    \/ SummaryWritten /\ WellFormedStep
    \/ SummaryWriteFails /\ WellFormedStep
    \/ CommentPosted /\ WellFormedStep
    \/ CommentFails /\ WellFormedStep

SpecWellFormed == Init /\ [][NextWellFormed]_vars

----------------------------------------------------------------------------
\* Measures over the event log

RECURSIVE CountIf(_, _)
CountIf(s, t) ==
    IF s = <<>> THEN 0
    ELSE (IF Head(s).type = t THEN 1 ELSE 0) + CountIf(Tail(s), t)

NumCalls    == CountIf(events, "call")
NumSleeps   == CountIf(events, "sleep")
NumReports  == CountIf(events, "report")
NumWarnings == CountIf(events, "warning")
NumSetFailed == CountIf(events, "setFailed")
NumPass     == Cardinality({i \in DOMAIN events : events[i] = PassEv})

Done == pc = "done"
MarkedFailed == NumSetFailed > 0

TypeOK ==
    /\ mode \in Modes
    /\ maxRetries \in 1..MaxAttempts
    /\ pc \in {"start", "loop", "awaitCall", "awaitSleep", "done"}
    /\ attempt \in 0..(MaxAttempts + 1)
    /\ \A i \in DOMAIN outcomes : outcomes[i] \in Outcomes

----------------------------------------------------------------------------
\* Vocabulary of the properties

Last(s) == s[Len(s)]

IsVerdict(o) == o.kind = "verdict"
IsThrow(o)   == o.kind = "throw"
HasStatus(o, st) == IsVerdict(o) /\ o.status = StrVal(st)

\* two characters that are the same letter in either case
SameLetter(a, b) ==
    \/ a = b
    \/ \E i \in DOMAIN UpperChars : {a, b} = {UpperChars[i], LowerChars[i]}

EqualsIgnoringCase(s, t) ==
    /\ Len(s) = Len(t)
    /\ \A i \in DOMAIN s : SameLetter(s[i], t[i])

TerminalEvents == {PassEv, GateFailEv, WarnEv, ExhaustEv, ActionFailEv}

NumTerminal == Cardinality({i \in DOMAIN events : events[i] \in TerminalEvents})

\* the poll-loop events of a run that saw HOLD k-1 times and passed on call k:
\* call, sleep, call, sleep, ..., call, pass
HoldThenPassEvents(k) ==
    [i \in 1..(2 * k) |->
        IF i = 2 * k THEN PassEv
        ELSE IF i % 2 = 1 THEN CallEv ELSE SleepEv]

HoldThenPass(k) ==
    /\ Len(outcomes) = k
    /\ \A i \in 1..(k - 1) : HasStatus(outcomes[i], "HOLD")
    /\ HasStatus(outcomes[k], "PASS")

----------------------------------------------------------------------------
\* C1: HOLD on attempts 1..k-1 and PASS on attempt k (k <= maxAttempts) gives
\* exactly k remote calls, exactly k-1 delays of 20 seconds, one between each
\* pair of consecutive calls, and a run that ends without setFailed.
C1_HoldThenPass ==
    \A k \in 1..maxRetries :
        HoldThenPass(k) =>
            /\ Done
            /\ events = HoldThenPassEvents(k)
            /\ NumCalls = k
            /\ NumSleeps = k - 1
            /\ \A i \in DOMAIN events : events[i].type = "sleep" => events[i].ms = 20000
            /\ ~MarkedFailed

C1_Witness ==
    /\ maxRetries = MaxAttempts
    /\ HoldThenPass(MaxAttempts)
    /\ NumSleeps = MaxAttempts - 1
    /\ Done

\* C2 (as claimed): a first verdict FAILED in block mode, in any letter case,
\* marks the run failed after exactly one remote call and no delay.
C2_BlockFailsAfterOneCall ==
    ( /\ Len(outcomes) >= 1
      /\ HasStatus(outcomes[1], "FAILED")
      /\ EqualsIgnoringCase(mode, BlockStr) )
    => /\ Done
       /\ NumCalls = 1
       /\ NumSleeps = 0
       /\ MarkedFailed

\* C3 (as claimed): a FAILED verdict in warn mode, in any letter case, renders
\* the report, emits exactly one warning, makes no further remote call and
\* never calls setFailed.
C3_WarnRendersAndContinues ==
    \A i \in DOMAIN outcomes :
        ( HasStatus(outcomes[i], "FAILED") /\ EqualsIgnoringCase(mode, WarnStr) )
        => /\ Done
           /\ i = Len(outcomes)
           /\ NumCalls = i
           /\ NumReports = 1
           /\ NumWarnings = 1
           /\ ~MarkedFailed

\* C4 (as claimed): when the remote call throws on every attempt, the run
\* makes maxAttempts calls, sleeps maxAttempts - 1 times and is marked failed
\* with the retry-exhaustion message.
C4_ThrowsEveryAttempt ==
    ( /\ Done
      /\ Len(outcomes) >= 1
      /\ \A i \in DOMAIN outcomes : IsThrow(outcomes[i]) )
    => /\ NumCalls = maxRetries
       /\ NumSleeps = maxRetries - 1
       /\ Last(events) = ExhaustEv
       /\ NumSetFailed = 1

\* C5 (as claimed): whatever value the remote call throws, a throw on the
\* last attempt marks the run failed and a throw on an earlier attempt is
\* followed by exactly one delay before the next attempt.
C5_RetryRuleForEveryThrow ==
    [][ ( /\ pc = "awaitCall"
          /\ Len(outcomes') = Len(outcomes) + 1
          /\ IsThrow(Last(outcomes')) )
        => IF attempt = maxRetries
           THEN /\ pc' = "done"
                /\ Last(events') = ExhaustEv
           ELSE /\ pc' = "awaitSleep"
                /\ events' = Append(events, SleepEv)
                /\ attempt' = attempt ]_vars

\* C6: a verdict whose status is not exactly HOLD or FAILED ends the run at
\* once with the pass message: it is the last outcome, the pass message is
\* the last event, and the run is not marked failed.
C6_OtherStatusPasses ==
    \A i \in DOMAIN outcomes :
        ( /\ IsVerdict(outcomes[i])
          /\ outcomes[i].status \notin {StrVal("HOLD"), StrVal("FAILED")} )
        => /\ Done
           /\ i = Len(outcomes)
           /\ NumCalls = i
           /\ Last(events) = PassEv
           /\ NumPass = 1
           /\ ~MarkedFailed

C6_Witness ==
    /\ Done
    /\ Len(outcomes) = 2
    /\ HasStatus(outcomes[1], "HOLD")
    /\ IsVerdict(outcomes[2]) /\ outcomes[2].status = Absent
    /\ Last(events) = PassEv

\* C7: a terminal signal (pass message, setFailed, warning) is the last event
\* of the run: after it there is no call, no delay and no second signal.
C7_TerminalIsLast ==
    \A i \in DOMAIN events :
        events[i] \in TerminalEvents
        => /\ i = Len(events)
           /\ Done
           /\ NumTerminal = 1

C7_Witness ==
    /\ Done
    /\ NumCalls = 2
    /\ Last(events) = WarnEv
    /\ maxRetries = MaxAttempts

\* C8 (as claimed): for every mode, after a FAILED verdict there is no
\* further remote call and the report is rendered exactly once.
C8_FailedIsDefinitive ==
    \A i \in DOMAIN outcomes :
        HasStatus(outcomes[i], "FAILED")
        => /\ i = Len(outcomes)
           /\ NumCalls = i
           /\ NumReports = 1

\* C9 (as claimed): a finished run is marked failed exactly when it got a
\* FAILED verdict in block mode, or the remote call threw on the last
\* attempt, or an exception reached the top-level handler.
FailedInBlockMode ==
    /\ EqualsIgnoringCase(mode, BlockStr)
    /\ \E i \in DOMAIN outcomes : HasStatus(outcomes[i], "FAILED")

ThrewOnFinalAttempt ==
    /\ Len(outcomes) = maxRetries
    /\ IsThrow(outcomes[maxRetries])

C9_ExitContract ==
    Done => ( MarkedFailed <=>
                \/ FailedInBlockMode
                \/ ThrewOnFinalAttempt
                \/ ~inputsPresent )

\* C10: HOLD on every attempt gives exactly maxAttempts remote calls and a
\* run that ends with no pass message, no warning and no setFailed.
C10_HoldExhausted ==
    ( /\ Done
      /\ Len(outcomes) >= 1
      /\ \A i \in DOMAIN outcomes : HasStatus(outcomes[i], "HOLD") )
    => /\ NumCalls = maxRetries
       /\ Len(outcomes) = maxRetries
       /\ NumTerminal = 0
       /\ NumPass = 0
       /\ NumWarnings = 0
       /\ ~MarkedFailed

\* With a remote service that keeps to the declared response type and only
\* rejects with Error instances (SpecWellFormed), the statements of C2, C3,
\* C4 and C9 hold.
WellFormedRuns ==
    /\ C2_BlockFailsAfterOneCall
    /\ C3_WarnRendersAndContinues
    /\ C4_ThrowsEveryAttempt
    /\ C9_ExitContract

C10_Witness ==
    /\ Done
    /\ maxRetries = MaxAttempts
    /\ Len(outcomes) = MaxAttempts
    /\ \A i \in DOMAIN outcomes : HasStatus(outcomes[i], "HOLD")

----------------------------------------------------------------------------
----------------------------------------------------------------------------
\* The arguments the formatter is applied to

\* the positive value each level carries: nested counters and flattened keys
\* carry different numbers, so that a report shows which one was read
SeverityCounts == <<5, 30, 43, 103>>
RiskCounts     == <<2, 17, 28, 110>>

\* every choice of absent, 0, -1 or the level's positive value, per level
CounterChoices(counts) ==
    { <<a, b, c, d>> :
        a \in {Absent, NumVal(0), NumVal(-1), NumVal(counts[1])},
        b \in {Absent, NumVal(0), NumVal(-1), NumVal(counts[2])},
        c \in {Absent, NumVal(0), NumVal(-1), NumVal(counts[3])},
        d \in {Absent, NumVal(0), NumVal(-1), NumVal(counts[4])} }

\* every choice of absent or the level's positive value, per level
PresenceChoices(counts) ==
    { <<a, b, c, d>> :
        a \in {Absent, NumVal(counts[1])},
        b \in {Absent, NumVal(counts[2])},
        c \in {Absent, NumVal(counts[3])},
        d \in {Absent, NumVal(counts[4])} }

\* the flattened keys carry one more than the nested counters
Shifted(counts) == [i \in 1..4 |-> counts[i] + 1]

\* one family, one encoding, every combination of counter values
OneFamilyInputs ==
    { [PlainInput EXCEPT !.severity = Nested(c)] : c \in CounterChoices(SeverityCounts) }
    \cup { [PlainInput EXCEPT !.sevFlat = c] : c \in CounterChoices(SeverityCounts) }
    \cup { [PlainInput EXCEPT !.otherProperties = Other(c, Absent, Absent)] :
              c \in CounterChoices(RiskCounts) }
    \cup { [PlainInput EXCEPT !.riskFlat = c] : c \in CounterChoices(RiskCounts) }

\* one family in both encodings at once
MixedEncodingInputs ==
    { [PlainInput EXCEPT !.severity = Nested(c), !.sevFlat = f] :
          c \in PresenceChoices(SeverityCounts),
          f \in PresenceChoices(Shifted(SeverityCounts)) }
    \cup { [PlainInput EXCEPT !.otherProperties = Other(c, Absent, Absent),
                              !.riskFlat = f] :
          c \in PresenceChoices(RiskCounts),
          f \in PresenceChoices(Shifted(RiskCounts)) }

\* both families in one verdict, nested or flattened
BothFamilyInputs ==
    { [PlainInput EXCEPT !.severity = Nested(c),
                         !.otherProperties = Other(k, Absent, Absent)] :
          c \in PresenceChoices(SeverityCounts), k \in PresenceChoices(RiskCounts) }
    \cup { [PlainInput EXCEPT !.sevFlat = c, !.riskFlat = k] :
          c \in PresenceChoices(SeverityCounts), k \in PresenceChoices(RiskCounts) }

ReasonValues ==
    { Absent, Null, TxtVal(<<>>), NumVal(0),
      TxtVal(<<"5 critical findings detected. The maximum allowed is 0.">>) }

FormatLinkValues ==
    { Absent, Null, TxtVal(<<>>), NumVal(7),
      TxtVal(<<"https://app.armorcode.com/f">>),
      TxtVal(<<"https://app.armorcode.com/f", "?", "tab=1">>) }

AltLinkValues ==
    { Absent, TxtVal(<<"https://alt.armorcode.com/g">>),
      TxtVal(<<"https://alt.armorcode.com/g", "?", "q=1">>) }

JobNames == { <<>>, <<"b","u","i","l","d">>, <<"r","u","n"," ","i","t">> }

BuildNumbers == { Decimal(7), Decimal(128) }

\* the other fields of the verdict and of the run, for three counter shapes
FieldInputs ==
    { [PlainInput EXCEPT
          !.severity = sev,
          !.otherProperties = IF hasOther THEN Other(NoCounters, pid, spid)
                              ELSE NoOther,
          !.failureReasonText = reason, !.detailsLink = dl, !.link = l,
          !.jobName = job, !.buildNumber = bn] :
        sev \in {NoSeverity, Nested(<<NumVal(5), Absent, Absent, NumVal(103)>>)},
        hasOther \in BOOLEAN,
        pid \in {Absent, NumVal(11)}, spid \in {Absent, NumVal(12)},
        reason \in ReasonValues, dl \in FormatLinkValues, l \in AltLinkValues,
        job \in JobNames, bn \in BuildNumbers }

FormatInputs ==
    OneFamilyInputs \cup MixedEncodingInputs \cup BothFamilyInputs \cup FieldInputs

----------------------------------------------------------------------------
\* One call of the formatter

InitFormat ==
    /\ mode = BlockStr
    /\ maxRetries = 1
    /\ inputsPresent = TRUE
    /\ pc = "format"
    /\ attempt = 1
    /\ events = <<>>
    /\ outcomes = <<>>
    /\ fmtIn \in FormatInputs
    /\ fmtOut = [state |-> "none", message |-> <<>>]
    /\ retriesNaN = FALSE
    /\ additionalAQLFilters = <<>>
    /\ context = [pullRequest |-> FALSE, number |-> Absent]
    /\ requests = <<>>
    /\ report = <<>>
    /\ reporter = NoReporter

\* part_003 lines 59-69: run() calls the formatter with the verdict
Format ==
    /\ pc = "format"
    /\ pc' = "formatted"
    /\ fmtOut' = FormatDetailedErrorMessage(fmtIn)
    /\ IF FormatterThrows(fmtIn)
       THEN reporter' = reporter
       ELSE CreateSummary("FAILED", fmtIn, DetailsLinkOf(fmtIn))
    /\ UNCHANGED <<mode, maxRetries, inputsPresent, attempt, events, outcomes, fmtIn,
                   inputVars, requests, report>>

NextFormat == Format

SpecFormat == InitFormat /\ [][NextFormat]_vars

Returned == fmtOut.state = "returned"

FormatTypeOK ==
    /\ fmtOut.state \in {"none", "returned", "threw"}
    /\ Returned => Len(fmtOut.message) > 10

----------------------------------------------------------------------------
\* Vocabulary of the report properties

FirstIndex(t, piece) ==
    CHOOSE i \in DOMAIN t : t[i] = piece /\ \A j \in 1..(i - 1) : t[j] # piece

\* the pieces that follow a line label, up to the end of that line
LineAfter(msg, label) ==
    LET rest == SubSeq(msg, FirstIndex(msg, label) + 1, Len(msg))
    IN  IF Includes(rest, "\n")
        THEN SubSeq(rest, 1, FirstIndex(rest, "\n") - 1)
        ELSE rest

FindingsLine == LineAfter(fmtOut.message, "Findings Scope: ")
ReasonLine   == LineAfter(fmtOut.message, "Reason: ")
LinkLine     ==
    LineAfter(fmtOut.message, "View the findings that caused this failure: ")

\* t contains sub as a run of consecutive pieces
Contains(t, sub) ==
    \E i \in 1..(Len(t) - Len(sub) + 1) : SubSeq(t, i, i + Len(sub) - 1) = sub

\* counter(family, level) of the specification: the nested value when the
\* nested mapping carries the level, otherwise the flattened key, otherwise 0
CounterOf(nested, flat, i) ==
    IF nested.present /\ nested.c[i].type = "number" THEN nested.c[i].val
    ELSE IF flat[i].type = "number" THEN flat[i].val
    ELSE 0

SeverityCounter(i) == CounterOf(fmtIn.severity, fmtIn.sevFlat, i)
RiskCounter(i)     == CounterOf(fmtIn.otherProperties, fmtIn.riskFlat, i)

\* the rendered positive counters of a family, in level order
SeverityParts ==
    SelectSeq([i \in 1..4 |->
                 IF SeverityCounter(i) > 0
                 THEN Decimal(SeverityCounter(i)) \o <<SeverityLabels[i]>>
                 ELSE <<>>],
              LAMBDA x : x # <<>>)
RiskParts ==
    SelectSeq([i \in 1..4 |->
                 IF RiskCounter(i) > 0
                 THEN Decimal(RiskCounter(i)) \o <<RiskLabels[i]>>
                 ELSE <<>>],
              LAMBDA x : x # <<>>)

RECURSIVE JoinComma(_)
JoinComma(parts) ==
    IF parts = <<>> THEN <<>>
    ELSE IF Len(parts) = 1 THEN parts[1]
    ELSE parts[1] \o <<", ">> \o JoinComma(Tail(parts))

\* the reference rendering of the findings text
ReferenceFindings ==
    IF SeverityParts \o RiskParts = <<>>
    THEN <<"No findings detected">>
    ELSE JoinComma(SeverityParts \o RiskParts)

SeverityActive == \E i \in 1..4 : SeverityCounter(i) > 0
RiskActive     == \E i \in 1..4 : RiskCounter(i) > 0

----------------------------------------------------------------------------
\* C12 (as claimed): for every combination of counter values the findings
\* text is the reference rendering: the positive counters as "<n> <Label>" in
\* the order Critical, High, Medium, Low, Very Poor, Poor, Fair, Good, joined
\* by ", ", or "No findings detected" when no counter is positive.
C12_FindingsAreReference ==
    Returned => FindingsLine = ReferenceFindings

\* With one family in one encoding the findings text is the reference
\* rendering, for every combination of absent, zero, negative and positive
\* counters.
OneFamilyFindings ==
    (Returned /\ fmtIn \in OneFamilyInputs) => FindingsLine = ReferenceFindings

\* the verdict that carries the same counters and identifiers as flattened
\* dotted keys only
Flattened(r) ==
    [r EXCEPT !.severity = NoSeverity,
              !.sevFlat = r.severity.c,
              !.otherProperties = NoOther,
              !.riskFlat = r.otherProperties.c,
              !.productIdFlat = r.otherProperties.productId,
              !.subProductIdFlat = r.otherProperties.subProductId]

NestedOnly(r) ==
    /\ r.severity.present \/ r.otherProperties.present
    /\ r.sevFlat = NoCounters
    /\ r.riskFlat = NoCounters

\* C13 (as claimed): a verdict that carries its counters as nested mappings
\* and the verdict that carries the same values as flattened dotted keys,
\* everything else being equal, give the same report text.
C13_EncodingsAgree ==
    (Returned /\ NestedOnly(fmtIn))
    => FormatDetailedErrorMessage(Flattened(fmtIn)) = fmtOut

\* The two encodings give the same report when the verdict carries no
\* product or sub-product identifier.
EncodingsAgreeWithoutIds ==
    ( /\ Returned
      /\ NestedOnly(fmtIn)
      /\ ProductIdOf(fmtIn) = Absent
      /\ SubProductIdOf(fmtIn) = Absent )
    => FormatDetailedErrorMessage(Flattened(fmtIn)) = fmtOut

\* C14 (as claimed): counter lookup is per counter, nested first and then
\* flattened: in a verdict of the severity family alone, each level whose
\* nested value or else flattened value is positive is reported with that
\* value, and no other level is reported.
C14_PerCounterLookup ==
    (Returned /\ ~RiskActive)
    => \A i \in 1..4 :
          IF SeverityCounter(i) > 0
          THEN Contains(FindingsLine,
                        Decimal(SeverityCounter(i)) \o <<SeverityLabels[i]>>)
          ELSE ~Includes(FindingsLine, SeverityLabels[i])

\* C15 (as claimed): when both families are active the findings text holds
\* the positive counters of both, each family in its order, the two segments
\* separated by ", ".
C15_BothFamiliesContribute ==
    (Returned /\ SeverityActive /\ RiskActive)
    => FindingsLine = JoinComma(SeverityParts) \o <<", ">> \o JoinComma(RiskParts)

\* C16: the reason line holds 'SLA check failed' when failureReasonText is
\* absent, null or the empty string, and the provided text unchanged in every
\* other case.
C16_ReasonDefault ==
    Returned =>
        LET given == fmtIn.failureReasonText
        IN  /\ given.type \in {"absent", "null"} => ReasonLine = <<"SLA check failed">>
            /\ given.type = "text" =>
                   ReasonLine = IF given.val = <<>> THEN <<"SLA check failed">>
                                ELSE given.val
            /\ given.type = "number" => ReasonLine = Decimal(given.val)

C16_Witness ==
    /\ Returned
    /\ fmtIn.failureReasonText = Null
    /\ ReasonLine = <<"SLA check failed">>

IsNonEmptyText(v) == v.type = "text" /\ v.val # <<>>

\* the base link the report is expected to use
ExpectedBase ==
    IF IsNonEmptyText(fmtIn.detailsLink) THEN fmtIn.detailsLink.val
    ELSE IF IsNonEmptyText(fmtIn.link) THEN fmtIn.link.val
    ELSE <<"https://app.armorcode.com/client/integrations/">>

Occurrences(t, piece) == Cardinality({i \in DOMAIN t : t[i] = piece})

\* C17: the link of the report starts with the verdict's detailsLink when
\* that is present and non-empty, else with its link when that is present and
\* non-empty, else with the default page; the filter parameter is joined with
\* '&' when that base contains '?' and with '?' otherwise, so the formatter
\* adds at most one '?' and none to a base that has one.
C17_BaseLinkAndJunction ==
    Returned =>
        LET base == ExpectedBase
            junction == IF Includes(base, "?") THEN "&" ELSE "?"
        IN  /\ Len(LinkLine) > Len(base) + 2
            /\ SubSeq(LinkLine, 1, Len(base) + 2) = base \o <<junction, "filters=">>
            /\ Occurrences(LinkLine, "?") =
                   IF Includes(base, "?") THEN Occurrences(base, "?") ELSE 1

C17_Witness ==
    /\ Returned
    /\ fmtIn.detailsLink.type \in {"null", "absent"} \/ IsEmptyText(fmtIn.detailsLink)
    /\ IsNonEmptyText(fmtIn.link)
    /\ Includes(fmtIn.link.val, "?")
    /\ Contains(LinkLine, <<"&", "filters=">>)

\* the percent-encoded form of a JSON member "key":["text"]
EncodedMember(key, text) ==
    <<"%22", key, "%22", "%3A", "%5B", "%22">>
    \o [i \in DOMAIN text |-> IF text[i] = " " THEN "%20" ELSE text[i]]
    \o <<"%22", "%5D">>

\* C18 (as claimed): the filter of the link always carries buildNumber and
\* jobName as one-element arrays, carries product and subproduct only when
\* the verdict supplies the identifier, and never holds a null.
C18_FilterOmitsMissingIds ==
    Returned =>
        /\ Contains(LinkLine, EncodedMember("buildNumber", fmtIn.buildNumber))
        /\ Contains(LinkLine, EncodedMember("jobName", fmtIn.jobName))
        /\ Includes(LinkLine, "product")
               <=> fmtIn.otherProperties.productId.type = "number"
        /\ Includes(LinkLine, "subproduct")
               <=> fmtIn.otherProperties.subProductId.type = "number"
        /\ ~Includes(LinkLine, "null")

\* C19 (as claimed): the formatter returns a report for every verdict,
\* whatever the types of its optional fields, a detailsLink that is not a
\* string included.
C19_FormatterNeverThrows ==
    pc = "formatted" => fmtOut.state = "returned"

ReportLabels ==
    { "ArmorCode Release Gate Failed", "Product: ", "Sub Product: ",
      "Environment: ", "Findings Scope: ", "Reason: ",
      "View the findings that caused this failure: " }

----------------------------------------------------------------------------
\* C21: the n-th remote call of a run carries current = n and
\* end = maxRetries, both as decimal strings: the current values of a run are
\* 1, 2, ..., n without a gap or a repeat, end is the same in every call, and
\* current never exceeds end.
C21_RequestsNumbered ==
    /\ Len(requests) = NumCalls
    /\ \A n \in DOMAIN requests :
          /\ requests[n].current = Decimal(n)
          /\ requests[n].end = Decimal(maxRetries)
          /\ n <= maxRetries

C21_Witness ==
    /\ Done
    /\ Len(requests) = 3
    /\ requests[3].current = <<"3">>
    /\ requests[3].end = <<"3">>

----------------------------------------------------------------------------
\* One request body, for every filter input

RequestFilters ==
    FilterInputs \cup
    { <<" ">>, <<"\t">>, <<"\n", " ">>, <<" ", "a", "=", "1">>,
      <<"a", "=", "1", " ">>, <<"a", " ", "=", " ", "1">>,
      <<"\t", "a", " ", "b", "\t">> }

InitRequest ==
    /\ mode = BlockStr
    /\ maxRetries \in 1..MaxAttempts
    /\ inputsPresent = TRUE
    /\ pc = "request"
    /\ attempt \in 1..maxRetries
    /\ events = <<>>
    /\ outcomes = <<>>
    /\ fmtIn = <<>>
    /\ fmtOut = [state |-> "none", message |-> <<>>]
    /\ retriesNaN = FALSE
    /\ additionalAQLFilters \in RequestFilters
    /\ context = [pullRequest |-> FALSE, number |-> Absent]
    /\ requests = <<>>
    /\ report = <<>>
    /\ reporter = NoReporter

\* api.ts lines 24-48: the body is built and posted
PostRequest ==
    /\ pc = "request"
    /\ pc' = "requested"
    /\ requests' = <<Payload(attempt, maxRetries, additionalAQLFilters)>>
    /\ UNCHANGED <<mode, maxRetries, inputsPresent, attempt, events, outcomes,
                   fmtVars, inputVars, sinkVars>>

NextRequest == PostRequest

SpecRequest == InitRequest /\ [][NextRequest]_vars

IsBlank(s) == \A i \in DOMAIN s : s[i] \in WhiteSpace

\* s from its first to its last character that is not white space
Trimmed(s) ==
    LET solid == {i \in DOMAIN s : s[i] \notin WhiteSpace}
        lo == CHOOSE i \in solid : \A j \in solid : i <= j
        hi == CHOOSE i \in solid : \A j \in solid : j <= i
    IN  SubSeq(s, lo, hi)

\* C22: the request body holds additionalAQLFilters only when the configured
\* filter is not blank: for an empty or white-space filter the field is
\* absent, and for any other filter it is present with the trimmed value.
C22_FilterOnlyWhenNonBlank ==
    pc = "requested" =>
        IF IsBlank(additionalAQLFilters)
        THEN requests[1].additionalAQLFilters = Absent
        ELSE /\ requests[1].additionalAQLFilters.type = "text"
             /\ requests[1].additionalAQLFilters.val = Trimmed(additionalAQLFilters)

C22_Witness ==
    /\ pc = "requested"
    /\ additionalAQLFilters = <<" ", "a", "=", "1", "\n">>
    /\ requests[1].additionalAQLFilters = TxtVal(<<"a", "=", "1">>)

----------------------------------------------------------------------------
\* The reporter

\* the run for every triggering event
InitReporter ==
    /\ mode \in Modes
    /\ maxRetries \in 1..MaxAttempts
    /\ inputsPresent \in BOOLEAN
    /\ pc = "start"
    /\ attempt = 0
    /\ events = <<>>
    /\ outcomes = <<>>
    /\ fmtIn = <<>>
    /\ fmtOut = [state |-> "none", message |-> <<>>]
    /\ retriesNaN = FALSE
    /\ additionalAQLFilters = <<>>
    /\ context \in Contexts
    /\ requests = <<>>
    /\ report = <<>>
    /\ reporter = NoReporter

SpecReporter == InitReporter /\ [][Next]_vars

SinksPending == reporter.pendingWrites + reporter.pendingComments

\* the asynchronous operations of the run that have started and not settled
InFlight == (IF pc \in {"awaitCall", "awaitSleep"} THEN 1 ELSE 0) + SinksPending

TerminalSignalled == NumSetFailed > 0 \/ NumWarnings > 0

\* C23 (as claimed): a failure of the reporter's sinks, the summary write or
\* the comment post, is logged as a warning and swallowed: no rejected
\* promise is left unhandled, and every failure shows as a warning.
C23_SinkFailuresSwallowed ==
    /\ ~BagIn(UnhandledRejectionEv, reporter.log)
    /\ \A e \in BagToSet(reporter.log) :
          e.type \in {"error", "notice", "debug", "createComment", "info", "warning"}

ThrowsWhileRendering(o) ==
    IsVerdict(o) /\ StatusOf(o) = "FAILED" /\ FormatterThrows(o)

\* C25 (as claimed): an exception raised while rendering the report of a
\* FAILED verdict consumes no retry: no delay and no remote call follow it,
\* and the run ends marked failed with the generic message.
C25_RenderingErrorEndsRun ==
    \A i \in DOMAIN outcomes :
        ThrowsWhileRendering(outcomes[i]) =>
            /\ i = Len(outcomes)
            /\ pc = "done"
            /\ Last(events) = ActionFailEv
            /\ NumSleeps = Cardinality({j \in 1..(i - 1) :
                                          \/ HasStatus(outcomes[j], "HOLD")
                                          \/ IsThrow(outcomes[j]) /\ outcomes[j].isError})

\* C26 (as claimed): at most one asynchronous operation of the run is in
\* flight at any time; the summary write and the comment post that a FAILED
\* verdict started have settled before the run signals its terminal outcome
\* and before a later remote call starts.
C26_OneOperationInFlight ==
    /\ InFlight <= 1
    /\ TerminalSignalled => SinksPending = 0

----------------------------------------------------------------------------
HoldOrThrow(o) == HasStatus(o, "HOLD") \/ IsThrow(o)

\* C27 (as claimed): HOLD verdicts and thrown remote calls share one attempt
\* counter: in every mix of the two the run makes at most maxAttempts remote
\* calls, and a throw on the final attempt marks the run failed also when
\* earlier attempts were HOLD verdicts.
C27_SharedAttemptCounter ==
    /\ NumCalls <= maxRetries
    /\ ( /\ Done
         /\ Len(outcomes) = maxRetries
         /\ \A i \in DOMAIN outcomes : HoldOrThrow(outcomes[i])
         /\ IsThrow(Last(outcomes)) )
       => /\ Last(events) = ExhaustEv
          /\ NumSetFailed = 1

\* In the runs where every rejected call rejects with an Error instance and
\* every link is a string, the statement of C27 holds.
SharedCounterWellFormed ==
    (\A i \in DOMAIN outcomes : WellFormed(outcomes[i])) => C27_SharedAttemptCounter

\* C28 (as claimed): every delay is followed by another remote call, so a
\* finished run with at least one call has made one delay less than calls.
C28_DelaysAreCallsMinusOne ==
    /\ (Done /\ NumCalls >= 1) => NumSleeps = NumCalls - 1
    /\ \A i \in DOMAIN events :
          (events[i] = SleepEv /\ (i < Len(events) \/ Done))
          => (i < Len(events) /\ events[i + 1] = CallEv)

\* C28 (amended): every delay directly follows the remote call of its
\* attempt and is followed by another remote call, except the delay after a
\* HOLD verdict on the final attempt, after which the run ends; the number
\* of delays never exceeds the number of remote calls.
C28_DelayThenCallOrEnd ==
    /\ NumSleeps <= NumCalls
    /\ \A i \in DOMAIN events :
          events[i] = SleepEv =>
              /\ i > 1
              /\ events[i - 1] = CallEv
              /\ i < Len(events) => events[i + 1] = CallEv
              /\ (i = Len(events) /\ Done)
                 => /\ HasStatus(Last(outcomes), "HOLD")
                    /\ Len(outcomes) = maxRetries

C28_Witness ==
    /\ Done
    /\ NumCalls = 2
    /\ NumSleeps = 2
    /\ Last(events) = SleepEv
    /\ IsThrow(outcomes[1])

----------------------------------------------------------------------------
\* The maxRetries input

IsDigit(c) == \E i \in DOMAIN DigitChars : DigitChars[i] = c

DigitValue(c) == (CHOOSE i \in DOMAIN DigitChars : DigitChars[i] = c) - 1

RECURSIVE DigitsPrefix(_)
DigitsPrefix(s) ==
    IF s # <<>> /\ IsDigit(Head(s)) THEN <<Head(s)>> \o DigitsPrefix(Tail(s))
    ELSE <<>>

RECURSIVE NumberOf(_)
NumberOf(ds) ==
    IF ds = <<>> THEN 0
    ELSE 10 * NumberOf(SubSeq(ds, 1, Len(ds) - 1)) + DigitValue(ds[Len(ds)])

\* parseInt(s, 10): leading white space, an optional sign, then the longest
\* run of digits; NaN when there is no digit
ParseInt(s) ==
    LET t == TrimStart(s)
        signed == t # <<>> /\ Head(t) \in {"-", "+"}
        ds == DigitsPrefix(IF signed THEN Tail(t) ELSE t)
    IN  IF ds = <<>> THEN [nan |-> TRUE, val |-> 0]
        ELSE [nan |-> FALSE,
              val |-> IF signed /\ Head(t) = "-" THEN 0 - NumberOf(ds)
                      ELSE NumberOf(ds)]

\* part_003 line 21: parseInt(core.getInput('maxRetries') || '5', 10)
MaxRetriesOf(input) == ParseInt(IF input = <<>> THEN <<"5">> ELSE input)

\* the values of the maxRetries input the model draws from
RetryInputs ==
    { <<>>, <<"0">>, <<"-", "1">>, <<"-", "3">>, <<"a", "b", "c">>,
      <<"N", "a", "N">>, <<"1">>, <<"2">>, <<"2", "x">>, <<"+", "1">> }

\* the run for every value of the maxRetries input, in block and warn mode
InitAnyRetries ==
    /\ mode \in {BlockStr, WarnStr}
    /\ \E input \in RetryInputs :
          /\ maxRetries = MaxRetriesOf(input).val
          /\ retriesNaN = MaxRetriesOf(input).nan
    /\ inputsPresent = TRUE
    /\ pc = "start"
    /\ attempt = 0
    /\ events = <<>>
    /\ outcomes = <<>>
    /\ fmtIn = <<>>
    /\ fmtOut = [state |-> "none", message |-> <<>>]
    /\ additionalAQLFilters = <<>>
    /\ context = [pullRequest |-> TRUE, number |-> NumVal(42)]
    /\ requests = <<>>
    /\ report = <<>>
    /\ reporter = NoReporter

SpecAnyRetries == InitAnyRetries /\ [][Next]_vars

\* C29 (as claimed): for every value of the maxRetries input, 0, a negative
\* number and a text that parses to NaN included, a run that ends without
\* being marked failed has made a remote call and evaluated a verdict.
C29_NoPassWithoutVerdict ==
    (Done /\ ~MarkedFailed) =>
        /\ NumCalls >= 1
        /\ \E i \in DOMAIN outcomes : IsVerdict(outcomes[i])

----------------------------------------------------------------------------
\* Progress: a remote call returns or throws, a delay elapses, and run()
\* takes its next step
Fairness ==
    /\ WF_vars(GetInputs)
    /\ WF_vars(StartCall)
    /\ WF_vars(LoopExit)
    /\ WF_vars(CallReturns \/ CallThrows)
    /\ WF_vars(SleepElapses)

SpecLive == Spec /\ Fairness

\* C30: every run terminates: when each remote call returns or throws and
\* each delay elapses, run() returns, for every sequence of verdicts and
\* throws and every mode, and it has made at most maxAttempts remote calls.
C30_RunTerminates ==
    /\ <>(pc = "done")
    /\ [](NumCalls <= maxRetries /\ attempt <= maxRetries + 1)

C30_Witness ==
    /\ Done
    /\ maxRetries = MaxAttempts
    /\ NumCalls = MaxAttempts
    /\ NumReports = MaxAttempts
    /\ ~MarkedFailed

====
